---- MODULE Spec2Model ----
(***************************************************************************)
(* Transcription gateway of py-backend/app/api_routes/transcription.py:    *)
(* the POST / handler transcribe_audio, get_openai_client,                 *)
(* get_file_extension and the GET /health handler, over a shared           *)
(* filesystem, a process environment and an upstream transcription API.    *)
(*                                                                         *)
(* Conventions.  A Python string is a sequence of one-character strings    *)
(* where its characters matter (filenames, transcripts) and a TLA+ string  *)
(* where only its identity matters (model ids, language codes, raw error   *)
(* texts).  An Optional value is a sequence of length at most one:         *)
(* << >> is None (or "no such key/attribute"), <<v>> is the value v.       *)
(* A formatted message is the sequence of its literal and inserted parts.  *)
(***************************************************************************)
EXTENDS Integers, Sequences, FiniteSets, TLC

VARIABLES
    apiKey,        \* os.environ["OPENAI_API_KEY"], Optional string
    fs,            \* the temp directory: path -> file record
    pc,            \* per request: position in transcribe_audio
    req,           \* per request: file, model, language as received
    tempPath,      \* per request: temp_file_path (0 while unbound)
    params,        \* per request: transcription_params, Optional
    pending,       \* per request: outcome of the inner try body awaiting finally
    resp,          \* per request: what the caller receives, Optional
    upstream,      \* per request: the calls the upstream API has received and answered
    created,       \* per request: paths of the temp files it has created
    cleanupLog,    \* per request: the "Failed to cleanup" warnings logged
    health         \* the GET /health calls answered so far (last one kept)

vars == <<apiKey, fs, pc, req, tempPath, params, pending, resp, upstream,
          created, cleanupLog, health>>

----------------------------------------------------------------------------
(* Bounds of the model *)

NumReqs == 2        \* concurrent POST / requests
MaxTextLen == 2     \* characters in an upstream transcript

Reqs == 1..NumReqs
Paths == 1..NumReqs  \* names the temp-file facility can hand out

----------------------------------------------------------------------------
(* Generic helpers *)

None == << >>
Some(v) == <<v>>

Range(s) == {s[i] : i \in 1..Len(s)}

SeqsUpTo(S, n) == UNION {[1..k -> S] : k \in 0..n}

----------------------------------------------------------------------------
(* Size validation, lines 44-52 *)

MinBytes == 1024
MaxBytes == 25 * 1024 * 1024
BytesPerMB == 1024 * 1024

\* f"{x:.1f}" of x = num/den, in tenths: correctly rounded, ties to even
\* (every size below 2^53 bytes is exact in a float, so is a tie).
FormatTenths(num, den) ==
    LET q == (num * 10) \div den
        r == (num * 10) % den
    IN  IF 2 * r > den THEN q + 1
        ELSE IF 2 * r < den THEN q
        ELSE IF q % 2 = 0 THEN q ELSE q + 1

\* An exception object: an HTTPException carries status and detail, any other
\* exception its class and message.
HTTPException(status, detail) ==
    [type |-> "HTTPException", status |-> status, detail |-> detail, msg |-> ""]

Raised(type, msg) ==
    [type |-> type, status |-> 0, detail |-> << >>, msg |-> msg]

\* str(e): starlette's HTTPException prints "<status>: <detail>".
StrOf(e) ==
    IF e.type = "HTTPException"
    THEN <<ToString(e.status), ": ">> \o e.detail
    ELSE <<e.msg>>

\* Lines 48-52: the exception the size checks raise, None when both pass.
SizeCheck(size) ==
    IF size > MaxBytes
    THEN Some(HTTPException(400,
            <<"File too large (", "MB:", ToString(FormatTenths(size, BytesPerMB)),
              "). Maximum size is 25MB.">>))
    ELSE IF size < MinBytes
    THEN Some(HTTPException(400, <<"Audio file too short or empty">>))
    ELSE None

----------------------------------------------------------------------------
(* get_file_extension, lines 137-158 *)

LowerLetters == <<"a","b","c","e","f","g","l","m","o","p","s","t","u","v","w","x">>
UpperLetters == <<"A","B","C","E","F","G","L","M","O","P","S","T","U","V","W","X">>

\* str.lower() on one character
LowerChar(c) ==
    IF \E i \in 1..Len(UpperLetters) : UpperLetters[i] = c
    THEN LowerLetters[CHOOSE i \in 1..Len(UpperLetters) : UpperLetters[i] = c]
    ELSE c

\* Variant: the filename is compared as given, without lower()
str_lower_skipped(s) == s

\* str.lower()
str_lower(s) == [i \in 1..Len(s) |-> LowerChar(s[i])]

\* str.endswith(suffix)
endswith(s, suffix) ==
    /\ Len(s) >= Len(suffix)
    /\ SubSeq(s, Len(s) - Len(suffix) + 1, Len(s)) = suffix

\* str.endswith(tuple of suffixes)
endswith_any(s, suffixes) == \E suffix \in suffixes : endswith(s, suffix)

Ext_webm == <<".", "w", "e", "b", "m">>
Ext_opus == <<".", "o", "p", "u", "s">>
Ext_mp3  == <<".", "m", "p", "3">>
Ext_mpeg == <<".", "m", "p", "e", "g">>
Ext_wav  == <<".", "w", "a", "v">>
Ext_m4a  == <<".", "m", "4", "a">>
Ext_ogg  == <<".", "o", "g", "g">>
Ext_flac == <<".", "f", "l", "a", "c">>

\* `not x` for an Optional string of characters: None and "" are falsy
Falsy(x) == x = None \/ x[1] = << >>

get_file_extension(filename) ==
    IF Falsy(filename) THEN Ext_webm
    ELSE LET filename_lower == str_lower(filename[1]) IN
         IF endswith_any(filename_lower, {Ext_webm, Ext_opus}) THEN Ext_webm
         ELSE IF endswith_any(filename_lower, {Ext_mp3, Ext_mpeg}) THEN Ext_mp3
         ELSE IF endswith(filename_lower, Ext_wav) THEN Ext_wav
         ELSE IF endswith(filename_lower, Ext_m4a) THEN Ext_m4a
         ELSE IF endswith(filename_lower, Ext_ogg) THEN Ext_ogg
         ELSE IF endswith(filename_lower, Ext_flac) THEN Ext_flac
         ELSE Ext_webm

----------------------------------------------------------------------------
(* Responses and the except clauses of transcribe_audio, lines 112-135 *)

NoContent ==
    [keys |-> {}, text |-> << >>, message |-> "", language |-> None,
     duration |-> None, model |-> ""]

\* What the caller receives for a JSONResponse(content, status_code)
JSONResponse(content, status) ==
    [status |-> status, detail |-> << >>, content |-> content]

\* What the caller receives for an HTTPException leaving the handler
ErrorResponse(e) ==
    [status |-> e.status, detail |-> e.detail, content |-> NoContent]

\* Variant: `except Exception` placed first, so it catches everything
ExceptClausesCatchAllFirst(e) ==
    HTTPException(500, <<"Transcription service error: ">> \o StrOf(e))

\* The except clause that catches e, and the HTTPException it raises.
\* An HTTPException raised inside the try is an Exception like any other
\* and is caught by the last clause.
ExceptClauses(e) ==
    IF e.type = "BadRequestError"
    THEN HTTPException(400, <<"Audio processing failed: ">> \o StrOf(e))
    ELSE IF e.type = "AuthenticationError"
    THEN HTTPException(401, <<"Invalid OpenAI API key. Please check your configuration.">>)
    ELSE IF e.type = "RateLimitError"
    THEN HTTPException(429, <<"Rate limit exceeded. Please try again later.">>)
    ELSE IF e.type = "APIConnectionError"
    THEN HTTPException(503, <<"Unable to connect to OpenAI API. Please try again.">>)
    ELSE HTTPException(500, <<"Transcription service error: ">> \o StrOf(e))

\* The request fails with exception e raised inside the outer try
Fails(e) == Some(ErrorResponse(ExceptClauses(e)))

----------------------------------------------------------------------------
(* get_openai_client, lines 12-18 *)

\* Variant: the key is read once at import and cached
os_getenv_cached(env) == Some(<<"s", "k">>)

\* os.getenv("OPENAI_API_KEY") on the environment as it is at the call
os_getenv(env) == env

\* Variant: no check that the key is configured
get_openai_client_unchecked(env, ctorRaises) ==
    IF ctorRaises THEN Some(Raised("OpenAIError", "client init failed")) ELSE None

\* The exception get_openai_client raises, None when it returns a client;
\* ctorRaises: whether openai.OpenAI(api_key=...) raises.
get_openai_client(env, ctorRaises) ==
    LET api_key == os_getenv(env) IN
    IF Falsy(api_key)
    THEN Some(HTTPException(500,
            <<"OpenAI API key not configured. Please set OPENAI_API_KEY environment variable.">>))
    ELSE IF ctorRaises THEN Some(Raised("OpenAIError", "client init failed"))
    ELSE None

----------------------------------------------------------------------------
(* The upstream call and its result, lines 67-102 *)

\* Variant: only `if language`, so "auto" is forwarded
SendsLanguageIfSet(language) == language # None /\ language[1] # ""

\* `language and language != "auto"` for an Optional language code
SendsLanguage(language) ==
    /\ language # None
    /\ language[1] # ""
    /\ language[1] # "auto"

\* transcription_params, lines 68-76; the "language" key is Optional
TranscriptionParams(model, path, language) ==
    [model |-> model, file |-> path, response_format |-> "json",
     language |-> IF SendsLanguage(language) THEN language ELSE None]

Whitespace == {" ", "\n"}

\* str.strip()
RECURSIVE lstrip(_)
lstrip(s) == IF s # << >> /\ Head(s) \in Whitespace THEN lstrip(Tail(s)) ELSE s

RECURSIVE rstrip(_)
rstrip(s) ==
    IF s # << >> /\ s[Len(s)] \in Whitespace
    THEN rstrip(SubSeq(s, 1, Len(s) - 1)) ELSE s

\* Variant: lstrip() in place of strip()
strip_leading(s) == lstrip(s)

strip(s) == rstrip(lstrip(s))

\* Lines 82-102: the JSONResponse built from the upstream response
\* (text, and an Optional language attribute) for this model and language.
ResultOf(response, model, language) ==
    LET transcribed_text == strip(response.text) IN
    IF transcribed_text = << >>
    THEN JSONResponse(
            [NoContent EXCEPT !.keys = {"text", "message"},
                              !.message = "No speech detected in audio"], 200)
    ELSE JSONResponse(
            [keys |-> {"text", "language", "duration", "model"},
             text |-> transcribed_text,
             message |-> "",
             language |-> IF response.language # None
                          THEN response.language ELSE language,
             duration |-> None,
             model |-> model], 200)

\* The outcome of the inner try body, kept while the finally clause runs
Returns(response) ==
    [kind |-> "return", resp |-> response, exc |-> Raised("", "")]

Raises(e) ==
    [kind |-> "raise", resp |-> JSONResponse(NoContent, 0), exc |-> e]

----------------------------------------------------------------------------
(* The finally clause, lines 104-110 *)

\* Python's OSError and the subclasses os.unlink raises
OSErrors == {"OSError", "PermissionError", "FileNotFoundError"}

\* Variant: no try/except around os.unlink, its exception leaves finally
AfterCleanupPropagates(outcome, unlinkRaised) ==
    IF unlinkRaised = None THEN outcome ELSE Raises(unlinkRaised[1])

\* Lines 106-110: what os.unlink raised (None: nothing) is caught by
\* `except OSError` and logged; only an exception that clause does not catch
\* would replace the outcome of the try body.
AfterCleanup(outcome, unlinkRaised) ==
    IF unlinkRaised = None \/ unlinkRaised[1].type \in OSErrors
    THEN outcome
    ELSE Raises(unlinkRaised[1])

\* What the caller receives for an outcome leaving the inner try statement
Delivered(outcome) ==
    IF outcome.kind = "return" THEN Some(outcome.resp) ELSE Fails(outcome.exc)

----------------------------------------------------------------------------
(* The temp-file facility and the filesystem *)

NoFile == [exists |-> FALSE, suffix |-> << >>, data |-> None]

\* Variant: names are picked without regard to the files that exist
mkstemp_any(files) == Paths

\* The names tempfile.NamedTemporaryFile can pick: mkstemp opens with
\* O_CREAT | O_EXCL, so never the name of a file that exists.
mkstemp(files) == {p \in Paths : ~files[p].exists}

\* A file as upstream reads it through the handle opened on `path`
ReadFile(files, path) == files[path].data

----------------------------------------------------------------------------
(* State *)

NoRequest ==
    [file |-> [filename |-> None, size |-> 0, data |-> ""],
     model |-> "", language |-> None]

Init ==
    /\ apiKey = Some(<<"s", "k">>)
    /\ fs = [p \in Paths |-> NoFile]
    /\ pc = [r \in Reqs |-> "idle"]
    /\ req = [r \in Reqs |-> NoRequest]
    /\ tempPath = [r \in Reqs |-> 0]
    /\ params = [r \in Reqs |-> None]
    /\ pending = [r \in Reqs |-> None]
    /\ resp = [r \in Reqs |-> None]
    /\ upstream = [r \in Reqs |-> << >>]
    /\ created = [r \in Reqs |-> << >>]
    /\ cleanupLog = [r \in Reqs |-> << >>]
    /\ health = None

\* The handler ends, the caller receiving `response` (an Optional response)
Finish(r, response) ==
    /\ resp' = [resp EXCEPT ![r] = response]
    /\ pc' = [pc EXCEPT ![r] = "done"]

----------------------------------------------------------------------------
(* transcribe_audio, lines 20-135, one action per blocking step *)

\* Lines 37-54: the request arrives, the upload is read and its size checked.
\* (`if not file` at line 41 never fires: an UploadFile object is truthy, and
\* a request without the file field is answered by the framework before the
\* handler runs.)
Validate(r, Uploads, Models, Languages) ==
    /\ pc[r] = "idle"
    /\ \E file \in Uploads, model \in Models, language \in Languages :
        /\ req' = [req EXCEPT ![r] =
                     [file |-> file, model |-> model, language |-> language]]
        /\ LET rejected == SizeCheck(file.size) IN
           IF rejected # None
           THEN Finish(r, Fails(rejected[1]))
           ELSE /\ pc' = [pc EXCEPT ![r] = "client"]
                /\ UNCHANGED resp
    /\ UNCHANGED <<apiKey, fs, tempPath, params, pending, upstream, created,
                   cleanupLog, health>>

\* Line 57: client = get_openai_client()
GetClient(r) ==
    /\ pc[r] = "client"
    /\ \E ctorRaises \in BOOLEAN :
        LET failed == get_openai_client(apiKey, ctorRaises) IN
        IF failed # None
        THEN Finish(r, Fails(failed[1]))
        ELSE /\ pc' = [pc EXCEPT ![r] = "tempfile"]
             /\ UNCHANGED resp
    /\ UNCHANGED <<apiKey, fs, req, tempPath, params, pending, upstream,
                   created, cleanupLog, health>>

\* Lines 60-63: the temp file is created with the derived suffix and the
\* buffered bytes are written to it.  Creating may fail (no file), writing
\* may fail (the file exists, delete=False keeps it, and the exception leaves
\* the with statement before the inner try is entered).
CreateTemp(r) ==
    /\ pc[r] = "tempfile"
    /\ LET file_extension == get_file_extension(req[r].file.filename) IN
       \/ /\ Finish(r, Fails(Raised("OSError", "cannot create temp file")))
          /\ UNCHANGED <<fs, tempPath, created>>
       \/ \E p \in mkstemp(fs) :
            /\ created' = [created EXCEPT ![r] = Append(@, p)]
            /\ \/ /\ fs' = [fs EXCEPT ![p] =
                              [exists |-> TRUE, suffix |-> file_extension,
                               data |-> None]]
                  /\ Finish(r, Fails(Raised("OSError", "write failed")))
                  /\ UNCHANGED tempPath
               \/ /\ fs' = [fs EXCEPT ![p] =
                              [exists |-> TRUE, suffix |-> file_extension,
                               data |-> Some(req[r].file.data)]]
                  /\ tempPath' = [tempPath EXCEPT ![r] = p]
                  /\ pc' = [pc EXCEPT ![r] = "open"]
                  /\ UNCHANGED resp
    /\ UNCHANGED <<apiKey, req, params, pending, upstream, cleanupLog, health>>

\* Lines 65-76: inside the inner try, the temp file is opened and
\* transcription_params is built.  A failing open leaves through finally.
Open(r) ==
    /\ pc[r] = "open"
    /\ \/ /\ pending' = [pending EXCEPT ![r] =
                           Some(Raises(Raised("OSError", "cannot open temp file")))]
          /\ pc' = [pc EXCEPT ![r] = "finally"]
          /\ UNCHANGED params
       \/ /\ params' = [params EXCEPT ![r] =
                          Some(TranscriptionParams(req[r].model, tempPath[r],
                                                   req[r].language))]
          /\ pc' = [pc EXCEPT ![r] = "call"]
          /\ UNCHANGED pending
    /\ UNCHANGED <<apiKey, fs, req, tempPath, resp, upstream, created,
                   cleanupLog, health>>

\* Lines 79-102: client.audio.transcriptions.create(**transcription_params)
\* and the result built from its response.  Upstream[bytes] is the set of
\* outcomes the upstream API can produce for the bytes it reads.
Call(r, Upstream) ==
    /\ pc[r] = "call"
    /\ LET bytes == ReadFile(fs, params[r][1].file) IN
       \E outcome \in Upstream[bytes] :
         /\ upstream' = [upstream EXCEPT ![r] =
                           Append(@, [params |-> params[r][1], bytes |-> bytes,
                                      outcome |-> outcome])]
         /\ pending' = [pending EXCEPT ![r] =
                IF outcome.ok
                THEN Some(Returns(ResultOf(outcome.response, req[r].model,
                                           req[r].language)))
                ELSE Some(Raises(outcome.exc))]
    /\ pc' = [pc EXCEPT ![r] = "finally"]
    /\ UNCHANGED <<apiKey, fs, req, tempPath, params, resp, created,
                   cleanupLog, health>>

\* What os.unlink(temp_file_path) can do: succeed, or raise an OSError
UnlinkOutcomes ==
    {None, Some(Raised("PermissionError", "unlink: permission denied")),
     Some(Raised("OSError", "unlink: i/o error"))}

\* Lines 104-135: the finally clause unlinks the temp file (an OSError is
\* logged), then the outcome of the try body returns to the caller or goes
\* through the except clauses.
Finally(r) ==
    /\ pc[r] = "finally"
    /\ \E unlinkRaised \in UnlinkOutcomes :
        /\ IF unlinkRaised = None
           THEN /\ fs' = [fs EXCEPT ![tempPath[r]] = NoFile]
                /\ UNCHANGED cleanupLog
           ELSE /\ cleanupLog' = [cleanupLog EXCEPT ![r] =
                                    Append(@, tempPath[r])]
                /\ UNCHANGED fs
        /\ Finish(r, Delivered(AfterCleanup(pending[r][1], unlinkRaised)))
    /\ UNCHANGED <<apiKey, req, tempPath, params, pending, upstream, created,
                   health>>

----------------------------------------------------------------------------
(* transcription_health_check, lines 160-208 *)

HealthContent(status, error) ==
    [status |-> status, error |-> error, service |-> "transcription"]

\* The JSONResponse of GET /health for the environment at the call;
\* ctorRaises: whether openai.OpenAI(api_key=...) raises.
HealthResponse(env, ctorRaises) ==
    LET api_key == os_getenv(env) IN
    IF Falsy(api_key)
    THEN [status |-> 503,
          content |-> HealthContent("unhealthy", "OpenAI API key not configured")]
    ELSE IF ctorRaises
    THEN [status |-> 503,
          content |-> HealthContent("unhealthy", "OpenAI client initialization failed")]
    ELSE [status |-> 200, content |-> HealthContent("healthy", "")]

\* GET /health is answered; the call records the environment it ran in.
Health ==
    /\ \E ctorRaises \in BOOLEAN :
        health' = Some([env |-> apiKey, ctorRaises |-> ctorRaises,
                        resp |-> HealthResponse(apiKey, ctorRaises)])
    /\ UNCHANGED <<apiKey, fs, pc, req, tempPath, params, pending, resp,
                   upstream, created, cleanupLog>>

\* The operator changes OPENAI_API_KEY in the process environment.
EnvValues == {None, Some(<< >>), Some(<<"s", "k">>)}

SetEnv ==
    /\ \E v \in EnvValues : v # apiKey /\ apiKey' = v
    /\ UNCHANGED <<fs, pc, req, tempPath, params, pending, resp, upstream,
                   created, cleanupLog, health>>

----------------------------------------------------------------------------
(* Inputs *)

\* The request the single-request specifications follow
Solo == {1}

Models == {"whisper-1", "gpt-4o-transcribe"}

Languages == {None, Some(""), Some("auto"), Some("en"), Some("fr")}

\* Upload sizes around both limits; 26476544 bytes is 25.25 MB exactly
Sizes == {0, 1023, MinBytes, 2048, MaxBytes, MaxBytes + 1, 26476544,
          30 * BytesPerMB}

Filenames ==
    {None, Some(<<"a">> \o Ext_wav), Some(<<"A", ".", "M", "P", "3">>)}

Uploads ==
    [filename : Filenames, size : Sizes, data : {"A"}]

\* Upstream outcomes: a response with a transcript and an Optional language
\* attribute, or an exception of some class with its raw message.
TextChars == {" ", "\n", "a"}

RawMessages == {"raw upstream text 1", "raw upstream text 2"}

UpstreamErrors ==
    {"BadRequestError", "AuthenticationError", "RateLimitError",
     "APIConnectionError", "InternalServerError"}

Succeeds(text, language) ==
    [ok |-> TRUE, response |-> [text |-> text, language |-> language],
     exc |-> Raised("", "")]

Refuses(type, msg) ==
    [ok |-> FALSE, response |-> [text |-> << >>, language |-> None],
     exc |-> Raised(type, msg)]

\* What a temp file can hold: nothing yet, or the bytes of an upload
FileData == {None} \cup {Some(d) : d \in {"A", "B", "E"}}

\* The upstream API may answer anything, whatever it reads.
AnyOutcome ==
    [bytes \in FileData |->
        {Succeeds(t, l) : t \in SeqsUpTo(TextChars, MaxTextLen),
                          l \in {None, Some("de")}}
        \cup {Refuses(e, m) : e \in UpstreamErrors, m \in RawMessages}]

----------------------------------------------------------------------------
(* Spec: one POST / request over every input, and environment changes *)

Next ==
    \/ \E r \in Solo :
        \/ Validate(r, Uploads, Models, Languages)
        \/ GetClient(r)
        \/ CreateTemp(r)
        \/ Open(r)
        \/ Call(r, AnyOutcome)
        \/ Finally(r)
    \/ SetEnv

Spec == Init /\ [][Next]_vars

----------------------------------------------------------------------------
(* SpecExt: one request over filenames of every known suffix in every case *)

UpperChar(c) ==
    IF \E i \in 1..Len(LowerLetters) : LowerLetters[i] = c
    THEN UpperLetters[CHOOSE i \in 1..Len(LowerLetters) : LowerLetters[i] = c]
    ELSE c

\* s with the characters at any set of positions in upper case
CaseVariants(s) ==
    {[i \in 1..Len(s) |-> IF i \in U THEN UpperChar(s[i]) ELSE s[i]] :
        U \in SUBSET (1..Len(s))}

KnownSuffixes ==
    {Ext_webm, Ext_opus, Ext_mp3, Ext_mpeg, Ext_wav, Ext_m4a, Ext_ogg, Ext_flac}

OtherSuffixes ==
    {<<".", "t", "x", "t">>, <<"w", "a", "v">>, <<".", "w", "a", "v", "e">>,
     <<".", "m", "p", "4">>, <<".", "w", "a", "v", ".">>, <<".", "o", "g">>}

Stems == {<< >>, <<"a">>, <<"x">> \o Ext_wav, <<"a", ".">>}

ExtFilenames ==
    {None, Some(<< >>)}
    \cup {Some(stem \o suffix) :
            stem \in Stems,
            suffix \in UNION {CaseVariants(e) : e \in KnownSuffixes}
                       \cup OtherSuffixes}

ExtUploads == [filename : ExtFilenames, size : {2048}, data : {"A"}]

FewOutcomes ==
    [bytes \in FileData |->
        {Succeeds(<<"a">>, None),
         Refuses("RateLimitError", "raw upstream text 1")}]

NextExt ==
    \E r \in Solo :
        \/ Validate(r, ExtUploads, {"whisper-1"}, {Some("en")})
        \/ GetClient(r)
        \/ CreateTemp(r)
        \/ Open(r)
        \/ Call(r, FewOutcomes)
        \/ Finally(r)

SpecExt == Init /\ [][NextExt]_vars

----------------------------------------------------------------------------
(* SpecHealth: GET /health calls and environment changes around a request *)

HealthUploads ==
    [filename : {None}, size : {0, 2048, MaxBytes + 1}, data : {"A"}]

NextHealth ==
    \/ Health
    \/ SetEnv
    \/ \E r \in Solo :
        \/ Validate(r, HealthUploads, {"whisper-1"}, {Some("en")})
        \/ GetClient(r)
        \/ CreateTemp(r)
        \/ Open(r)
        \/ Call(r, FewOutcomes)
        \/ Finally(r)

SpecHealth == Init /\ [][NextHealth]_vars

----------------------------------------------------------------------------
(* SpecConc: NumReqs requests interleaved at every blocking step *)

ConcUploads == [filename : {None}, size : {1023, 2048}, data : {"A", "B", "E"}]

\* An upstream whose answer is a function of the bytes it reads
EchoOutcome ==
    [bytes \in FileData |->
        IF bytes = Some("A") THEN {Succeeds(<<"a">>, None)}
        ELSE IF bytes = Some("B") THEN {Succeeds(<<" ">>, None)}
        ELSE {Refuses("BadRequestError", "raw upstream text 1")}]

NextConc ==
    \E r \in Reqs :
        \/ Validate(r, ConcUploads, {"whisper-1"}, {Some("en")})
        \/ GetClient(r)
        \/ CreateTemp(r)
        \/ Open(r)
        \/ Call(r, EchoOutcome)
        \/ Finally(r)

SpecConc == Init /\ [][NextConc]_vars

----------------------------------------------------------------------------
(* Properties *)

\* The size limits as the interface documents them
TooSmall(r) == req[r].file.size < 1024
TooLarge(r) == req[r].file.size > 25 * 1024 * 1024
Received(r) == pc[r] # "idle"
Done(r) == pc[r] = "done"
Answer(r) == resp[r][1]
Called(r) == upstream[r] # << >>

\* The documented status of each upstream error category
ExpectedStatus(type) ==
    CASE type = "BadRequestError" -> 400
      [] type = "AuthenticationError" -> 401
      [] type = "RateLimitError" -> 429
      [] type = "APIConnectionError" -> 503
      [] OTHER -> 500

GenericDetail(type) ==
    CASE type = "AuthenticationError" ->
            <<"Invalid OpenAI API key. Please check your configuration.">>
      [] type = "RateLimitError" ->
            <<"Rate limit exceeded. Please try again later.">>
      [] type = "APIConnectionError" ->
            <<"Unable to connect to OpenAI API. Please try again.">>

\* C1: every temp file a request created no longer exists once the request
\* has returned or failed, and a request creates at most one.
C1_TempFileRemoved ==
    \A r \in Reqs :
        Done(r) =>
            /\ Len(created[r]) <= 1
            /\ \A i \in 1..Len(created[r]) : ~fs[created[r][i]].exists

\* C2: an upload below 1024 bytes or above 25 MiB is answered with status 400.
C2_SizeRejectionIs400 ==
    \A r \in Reqs :
        (Done(r) /\ (TooSmall(r) \/ TooLarge(r))) => Answer(r).status = 400

\* C3: when the inner try body raises, the status is decided by the error
\* category alone (400, 401, 429, 503, otherwise 500); the 401, 429 and 503
\* details are fixed and leave out the raw upstream text, the 500 detail
\* includes the original message.
C3_ErrorMapping ==
    \A r \in Reqs :
        (Done(r) /\ pending[r] # None /\ pending[r][1].kind = "raise") =>
            LET e == pending[r][1].exc
                out == Answer(r)
            IN  /\ out.status = ExpectedStatus(e.type)
                /\ out.status \in {401, 429, 503} =>
                    /\ out.detail = GenericDetail(e.type)
                    /\ e.msg \notin Range(out.detail)
                /\ out.status = 500 => e.msg \in Range(out.detail)

C3_Witness ==
    \E r \in Reqs :
        /\ Done(r) /\ Called(r)
        /\ pending[r][1].kind = "raise"
        /\ pending[r][1].exc.type = "AuthenticationError"
        /\ Answer(r).status = 401

\* C4: whether or not deleting the temp file fails, the caller receives the
\* outcome of the upstream step (the response the try body returned, or the
\* mapped error); a deletion failure leaves one log entry and nothing else.
C4_CleanupFailureKeepsOutcome ==
    \A r \in Reqs :
        (Done(r) /\ pending[r] # None) =>
            LET o == pending[r][1]
                out == Answer(r)
            IN  /\ o.kind = "return" => out = o.resp /\ out.status = 200
                /\ o.kind = "raise" =>
                    /\ out.status = ExpectedStatus(o.exc.type)
                    /\ out.status \in {400, 500} => o.exc.msg \in Range(out.detail)
                /\ cleanupLog[r] =
                     IF fs[tempPath[r]].exists THEN <<tempPath[r]>> ELSE << >>

C4_Witness ==
    \E r \in Reqs :
        /\ Done(r) /\ Called(r)
        /\ cleanupLog[r] # << >>
        /\ fs[tempPath[r]].exists
        /\ Answer(r).status = 200
        /\ Answer(r).content.message = "No speech detected in audio"

\* C5: every upstream call carries the request's model, the temp file and
\* response_format "json"; it carries a language exactly when the request's
\* language is neither absent, empty nor "auto", and then that value.
C5_LanguageForwarding ==
    \A r \in Reqs : \A i \in 1..Len(upstream[r]) :
        LET sent == upstream[r][i].params
            language == req[r].language
        IN  /\ sent.language # None <=>
                language \notin {None, Some(""), Some("auto")}
            /\ sent.language # None => sent.language = language
            /\ sent.model = req[r].model
            /\ sent.file = tempPath[r]
            /\ sent.response_format = "json"

C5_Witness ==
    \E r \in Reqs :
        /\ Called(r)
        /\ req[r].language = Some("auto")
        /\ upstream[r][1].params.language = None
        /\ req[r].model = "gpt-4o-transcribe"

\* t is s without its leading and trailing whitespace
IsTrimOf(t, s) ==
    \/ t = << >> /\ \A i \in 1..Len(s) : s[i] \in {" ", "\n"}
    \/ \E i, j \in 1..Len(s) :
        /\ i <= j
        /\ s[i] \notin {" ", "\n"} /\ s[j] \notin {" ", "\n"}
        /\ \A k \in 1..Len(s) : (k < i \/ k > j) => s[k] \in {" ", "\n"}
        /\ t = SubSeq(s, i, j)

\* C6: when upstream succeeds, the caller receives status 200: with text ""
\* and the message "No speech detected in audio" when the transcript is
\* empty after trimming, otherwise with the trimmed text, the request's
\* model and a language field.
C6_TranscriptResult ==
    \A r \in Reqs :
        (Done(r) /\ Called(r) /\ upstream[r][1].outcome.ok) =>
            LET text == upstream[r][1].outcome.response.text
                out == Answer(r)
            IN  /\ out.status = 200
                /\ IsTrimOf(out.content.text, text)
                /\ IF out.content.text = << >>
                   THEN /\ out.content.keys = {"text", "message"}
                        /\ out.content.message = "No speech detected in audio"
                   ELSE /\ out.content.model = req[r].model
                        /\ "language" \in out.content.keys
                        /\ "message" \notin out.content.keys

C6_Witness ==
    \E r \in Reqs :
        /\ Done(r) /\ Called(r)
        /\ upstream[r][1].outcome.ok
        /\ upstream[r][1].outcome.response.text = <<" ", "\n">>
        /\ Answer(r).status = 200
        /\ Answer(r).content.text = << >>

\* s ends with suffix e in some mix of upper and lower case
EndsWithIgnoringCase(s, e) == \E v \in CaseVariants(e) : endswith(s, v)

\* The documented extension of a filename
DocumentedExtension(filename) ==
    IF filename = None \/ filename = Some(<< >>) THEN Ext_webm
    ELSE LET s == filename[1] IN
         CASE EndsWithIgnoringCase(s, Ext_webm) -> Ext_webm
           [] EndsWithIgnoringCase(s, Ext_opus) -> Ext_webm
           [] EndsWithIgnoringCase(s, Ext_mp3) -> Ext_mp3
           [] EndsWithIgnoringCase(s, Ext_mpeg) -> Ext_mp3
           [] EndsWithIgnoringCase(s, Ext_wav) -> Ext_wav
           [] EndsWithIgnoringCase(s, Ext_m4a) -> Ext_m4a
           [] EndsWithIgnoringCase(s, Ext_ogg) -> Ext_ogg
           [] EndsWithIgnoringCase(s, Ext_flac) -> Ext_flac
           [] OTHER -> Ext_webm

\* C7: the temp file a request creates has the documented extension of the
\* request's filename as its suffix, one of the six extensions.
C7_FileExtension ==
    \A r \in Reqs : \A i \in 1..Len(created[r]) :
        fs[created[r][i]].exists =>
            /\ fs[created[r][i]].suffix = DocumentedExtension(req[r].file.filename)
            /\ fs[created[r][i]].suffix \in
                 {Ext_webm, Ext_mp3, Ext_wav, Ext_m4a, Ext_ogg, Ext_flac}

C7_Witness ==
    \E r \in Reqs :
        /\ pc[r] = "call"
        /\ req[r].file.filename = Some(<<"a", ".", ".", "M", "p", "E", "G">>)
        /\ fs[tempPath[r]].suffix = Ext_mp3

\* C8: GET /health answers 503 "unhealthy" when the credential, as it is at
\* the call, is absent or empty or the client constructor raises, and 200
\* "healthy" otherwise; answering it changes no file, no upstream call and
\* no request.
C8_HealthState ==
    health # None =>
        LET h == health[1] IN
        IF h.env = None \/ h.env = Some(<< >>) \/ h.ctorRaises
        THEN h.resp.status = 503 /\ h.resp.content.status = "unhealthy"
        ELSE h.resp.status = 200 /\ h.resp.content.status = "healthy"

C8_HealthStep ==
    health' # health =>
        /\ health' # None
        /\ health'[1].env = apiKey
        /\ UNCHANGED <<apiKey, fs, upstream, created, pc, resp>>

C8_Health == []C8_HealthState /\ [][C8_HealthStep]_vars

C8_Witness ==
    /\ health # None
    /\ health[1].env = None
    /\ health[1].resp.status = 503
    /\ apiKey = Some(<<"s", "k">>)

\* C9: a request rejected for its size, or finding the credential missing
\* (answered 500), creates no temp file and makes no upstream call; the
\* upstream API is called at most once per request, and only from the call
\* step, which lies behind the size check and the credential check.
C9_FrameState ==
    \A r \in Reqs :
        /\ Len(upstream[r]) <= 1
        /\ (Received(r) /\ (TooSmall(r) \/ TooLarge(r))) =>
              Done(r) /\ created[r] = << >> /\ ~Called(r)

C9_FrameStep ==
    \A r \in Reqs :
        /\ (pc[r] = "client" /\ pc'[r] # "client" /\ apiKey \in {None, Some(<< >>)}) =>
              /\ pc'[r] = "done"
              /\ resp'[r][1].status = 500
              /\ created'[r] = << >> /\ upstream'[r] = << >>
              /\ fs' = fs
        /\ upstream'[r] # upstream[r] => pc[r] = "call"
        /\ created'[r] # created[r] => pc[r] = "tempfile"
        /\ (pc'[r] = "tempfile" /\ pc[r] # "tempfile") =>
              pc[r] = "client" /\ ~(TooSmall(r) \/ TooLarge(r))
        /\ (pc'[r] = "call" /\ pc[r] # "call") => pc[r] = "open"
        /\ (pc'[r] = "open" /\ pc[r] # "open") => pc[r] = "tempfile"

C9_NoEffectBeforeTempFile == []C9_FrameState /\ [][C9_FrameStep]_vars

C9_Witness ==
    \E r \in Reqs :
        /\ Done(r)
        /\ ~(TooSmall(r) \/ TooLarge(r))
        /\ Answer(r).status = 500
        /\ "OpenAI API key not configured. Please set OPENAI_API_KEY environment variable."
              \in Range(Answer(r).detail)
        /\ created[r] = << >> /\ ~Called(r)

\* What a request that reaches upstream receives when it runs alone
AloneAnswer(data, out) ==
    CASE data = "A" -> out.status = 200 /\ out.content.text = <<"a">>
      [] data = "B" -> /\ out.status = 200
                       /\ out.content.message = "No speech detected in audio"
      [] OTHER -> out.status = 400

InFlight(r) == pc[r] \in {"open", "call", "finally"}

\* C10: under every interleaving, each upstream call reads the bytes its own
\* request uploaded, a request's temp file stays in place until its own
\* upstream call is over, only a request's own cleanup removes or changes its
\* file, and each request is answered as if it ran alone.
C10_IsolationState ==
    \A r \in Reqs :
        /\ InFlight(r) =>
              /\ fs[tempPath[r]].exists
              /\ fs[tempPath[r]].data = Some(req[r].file.data)
              /\ \A q \in Reqs \ {r} : InFlight(q) => tempPath[q] # tempPath[r]
        /\ \A i \in 1..Len(upstream[r]) :
              upstream[r][i].bytes = Some(req[r].file.data)
        /\ (Done(r) /\ Called(r)) => AloneAnswer(req[r].file.data, Answer(r))
        /\ (Done(r) /\ ~Called(r)) => Answer(r).status = 500

C10_IsolationStep ==
    \A p \in Paths :
        (fs[p].exists /\ fs'[p] # fs[p]) =>
            \E r \in Reqs :
                /\ pc[r] = "finally" /\ pc'[r] = "done"
                /\ tempPath[r] = p
                /\ created[r][Len(created[r])] = p

C10_Isolation == []C10_IsolationState /\ [][C10_IsolationStep]_vars

C10_Witness ==
    \E r, q \in Reqs :
        /\ r # q
        /\ Done(r) /\ Called(r) /\ req[r].file.data = "A"
        /\ pc[q] = "call" /\ req[q].file.data = "B"
        /\ tempPath[q] = tempPath[r]

====
